---- MODULE Spec2Model ----
(***************************************************************************)
(* SpinWick orchestration of mattermost-mattermod: the create, update and  *)
(* destroy workflows of server/spinwick.go and the build waiter of         *)
(* server/builds.go, as a state machine.                                   *)
(*                                                                         *)
(* A workflow is a goroutine running one of waitForBuildAndSetupSpinWick,  *)
(* updateSpinWick or destroySpinWick.  Each call to a collaborator (the    *)
(* record store, GitHub, Jenkins, the provisioning server, the application)*)
(* is one step; what the collaborator answers is an input of the step.     *)
(* Every workflow keeps the list of the calls it made (log), from which    *)
(* the properties about "what was requested, and in which order" are read. *)
(***************************************************************************)
EXTENDS Integers, Sequences, FiniteSets, TLC

VARIABLES
    wf,        \* wf[w]: the goroutine in slot w: position, locals, log
    store,     \* Spinmint table: the set of persisted InstallationRecords
    remote,    \* provisioning server: state of installation id
    owner,     \* provisioning server: pull request an installation was created for
    nextId,    \* provisioning server: next installation id it hands out
    crashed    \* the process died of an unrecovered panic

vars == <<wf, store, remote, owner, nextId, crashed>>

(***************************** bounds **************************************)
\* installation ids the provisioning server can hand out
MaxInst == 2
\* the deadline of the build wait, in 30-second poll intervals
BuildDeadline == 4
\* the 480-second deadlines (build link, installation), in 10-second intervals
PollDeadline == 3
\* the 900-second cluster deadline, in 30-second poll rounds
ClusterDeadline == 2
\* the deadline of the image wait, in 10-second poll intervals
ImageDeadline == 4

(***************************** configuration *******************************)
Workers == {1, 2}
PRs == {1, 2, 3, 4}
InstIds == 1..MaxInst
NoId == 0

serverRepoName == "mattermost-server"

\* pr.RepoName of the pull requests of the model
RepoName(p) ==
    CASE p = 1 -> "mattermost-webapp"
      [] p = 2 -> serverRepoName
      [] p = 3 -> "mattermost-mobile"
      [] OTHER -> "mattermost-redux"

\* Config.Repositories: the Jenkins server of a repository ("" when none)
JenkinsServer(repo) == IF repo = "mattermost-redux" THEN "" ELSE "jenkins"
\* Config.JenkinsCredentials
JenkinsCredentials == {"jenkins"}
\* the status contexts a repository can be configured with
Contexts == {"ci/a", "ci/b"}

(***************************** events **************************************)
Ev(op, arg) == [op |-> op, arg |-> arg]

Has(s, op) == \E i \in 1..Len(s) : s[i].op = op
HasEv(s, op, arg) == \E i \in 1..Len(s) : s[i] = Ev(op, arg)
\* the positions of the calls op in a log
At(s, op) == {i \in 1..Len(s) : s[i].op = op}

\* The calls that change something outside the goroutine, and the comments.
Effects ==
    {"CreateInstallation", "UpgradeInstallation", "DeleteInstallation",
     "CreateCluster", "Spinmint.Save", "Spinmint.Delete", "PullRequest.Save",
     "commentFail", "commentInfo", "commentOk", "initializeMattermostTestServer"}
IsEffect(e) == e.op \in Effects

\* how a logged call ended, where the log tells
Succeeded == 0
Failed == 1

\* When a stage function has returned and its caller goes on, the log keeps
\* of the stage its effects and one event naming the stage and what it returned.
Nil == 0
Err == 1
Timeout == 2
Compact(log, stage, code) == SelectSeq(log, IsEffect) \o <<Ev(stage, code)>>

(***************************** goroutines **********************************)
Idle ==
    [kind |-> "none", pr |-> 0, pc |-> "idle", t |-> 0,
     context |-> "", inst |-> NoId, respId |-> NoId, cluster |-> "", round |-> 0,
     BuildStatus |-> "", BuildConclusion |-> "", BuildLink |-> "",
     link |-> "", labels |-> {},
     ret |-> "", mark |-> 0, outcome |-> "", log |-> <<>>]

Init ==
    /\ wf = [w \in Workers |-> Idle]
    /\ store = {}
    /\ remote = [i \in InstIds |-> "none"]
    /\ owner = [i \in InstIds |-> 0]
    /\ nextId = 1
    /\ crashed = FALSE

Running(w) == wf[w].pc \notin {"idle", "done", "panic"}
Active(p) == \E w \in Workers : Running(w) /\ wf[w].pr = p

\* a goroutine ends: its function returned
Return(r, outcome) == [r EXCEPT !.pc = "done", !.outcome = outcome]
\* a goroutine panics: nothing recovers it, the process dies
Panic(r) == [r EXCEPT !.pc = "panic", !.outcome = "panic"]

Set(w, r) ==
    /\ wf' = [wf EXCEPT ![w] = r]
    /\ crashed' = (crashed \/ r.pc = "panic")

(***************************** select **************************************)
\* select { case <-ctx.Done(): ...  case <-time.After(interval): ... } entered
\* at time t (in intervals) under a deadline d: the timer fires at t+1.  When
\* both are ready at the same instant Go picks either.
SelectOutcomes(t, d) ==
    IF t + 1 < d THEN {"timer"}
    ELSE IF t + 1 = d THEN {"timer", "done"}
    ELSE {"done"}

(***************************** triggers ************************************)
\* The trigger layer starts a workflow as a goroutine.  It serializes the
\* events of one pull request: no workflow starts for a pull request that
\* has one running.
Free(w, p) == ~crashed /\ wf[w].pc = "idle" /\ ~Active(p)

Begin(kind, p, pc) == [Idle EXCEPT !.kind = kind, !.pr = p, !.pc = pc]

\* a goroutine whose function returned is gone; its slot takes the next one
Exit(w) ==
    /\ ~crashed
    /\ wf[w].pc = "done"
    /\ Set(w, Idle)
    /\ UNCHANGED <<store, remote, owner, nextId>>

\* go waitForBuildAndSetupSpinWick(pr, size)
StartCreate(w) ==
    \E p \in PRs :
        /\ Free(w, p)
        /\ Set(w, Begin("create", p, "waitForBuildComplete"))
        /\ UNCHANGED <<store, remote, owner, nextId>>

(***************************** build wait **********************************)
\* what one status fetch can answer
Statuses == {"in_progress", "completed", "queued", ""}
Conclusions == {"success", "failure", ""}
\* pr.BuildLink: none, a Jenkins job URL (six path parts or more), a shorter URL
Links == {"", "long", "short"}
Results == {"SUCCESS", "FAILURE", "ABORTED", ""}

NoJenkins == [jobErr |-> FALSE, buildErr |-> FALSE, Building |-> FALSE, Result |-> ""]
\* the Jenkins answers of one poll: GetJob fails, GetBuild fails, or a build;
\* Jenkins is asked only for a mattermost-server pull request with a
\* well-formed build link
JenkinsAnswers(repo, link) ==
    IF repo = serverRepoName /\ link = "long"
    THEN {[NoJenkins EXCEPT !.jobErr = TRUE], [NoJenkins EXCEPT !.buildErr = TRUE]}
         \cup {[NoJenkins EXCEPT !.Building = b, !.Result = x] : b \in BOOLEAN, x \in Results}
    ELSE {NoJenkins}

\* pr.BuildLink as a poll can read it from the store: only a
\* mattermost-server link is taken apart, and a link that was stored stays
LinkAnswers(repo, log) ==
    IF repo # serverRepoName THEN {"", "long"}
    ELSE IF Has(log, "GetJob") THEN {"long"}
    ELSE Links

\* the (status, conclusion) pairs GetUpdateChecks can answer: all of them
\* where the status decides, two of them where it is not read
StatusAnswers(repo) ==
    IF repo = "mattermost-webapp" THEN Statuses \X Conclusions
    ELSE {<<"in_progress", "">>, <<"completed", "success">>}

\* what a status fetch observed, as the log keeps it
InProgress == 0
CompletedSuccess == 1
CompletedOther == 2
UnknownStatus == 3
Observed(status, conclusion) ==
    CASE status = "in_progress" -> InProgress
      [] status = "completed" /\ conclusion = "success" -> CompletedSuccess
      [] status = "completed" -> CompletedOther
      [] OTHER -> UnknownStatus

NotRead == 4
\* the status is what decides for mattermost-webapp only (builds.go:99)
Seen(repo, status, conclusion) ==
    IF repo = "mattermost-webapp" THEN Observed(status, conclusion) ELSE NotRead

\* the calls of one poll after the pull request was re-read (builds.go:93-145)
PollCalls(repo, status, conclusion, link, j) ==
    <<Ev("GetUpdateChecks.status", Seen(repo, status, conclusion))>>
    \o (IF repo = serverRepoName /\ link = "long"
        THEN <<Ev("GetJob", 0)>> \o (IF j.jobErr THEN <<>> ELSE <<Ev("GetBuild", 0)>>)
        ELSE <<>>)

\* a decision that looks for the conclusion in Jenkins' spelling
WaitForBuildDecisionUpper(repo, status, conclusion, link, j) ==
    CASE status = "in_progress" -> "continue"
      [] status = "completed" -> IF conclusion = "SUCCESS" THEN "success" ELSE "failed"
      [] OTHER -> "failed"

\* a decision that keeps polling on a status it does not know
WaitForBuildDecisionLenient(repo, status, conclusion, link, j) ==
    CASE status = "completed" -> IF conclusion = "success" THEN "success" ELSE "failed"
      [] OTHER -> "continue"

\* the decision of one poll of waitForBuild (builds.go:99-157):
\* "success" (return pr, nil), "failed" (return pr, err), "continue" (next
\* round) or "panic" (parts[len(parts)-3] on a link with too few parts)
WaitForBuildDecision(repo, status, conclusion, link, j) ==
    IF repo = "mattermost-webapp"
    THEN CASE status = "in_progress" -> "continue"
           [] status = "completed" ->
                IF conclusion = "success" THEN "success" ELSE "failed"
           [] OTHER -> "failed"
    ELSE IF link = "" THEN "continue"
    ELSE IF repo # serverRepoName THEN "failed"
    ELSE IF link = "short" THEN "panic"
    ELSE IF j.jobErr \/ j.buildErr THEN "failed"
    ELSE IF ~j.Building /\ j.Result = "SUCCESS" THEN "success"
    ELSE IF j.Result \in {"FAILURE", "ABORTED"} THEN "failed"
    ELSE "continue"

\* a stage function is entered: its clock starts, its calls are logged from here
Enter(r, pc) == [r EXCEPT !.pc = pc, !.t = 0, !.ret = "", !.mark = Len(r.log)]
\* the calls of the stage the goroutine is in
StageLog(r) == SubSeq(r.log, r.mark + 1, Len(r.log))
\* a stage function returns ret to its caller
Returned(r, pc, ret) == [r EXCEPT !.pc = pc, !.ret = ret]
RetCode(ret) == CASE ret = "nil" -> Nil [] ret = "timeout" -> Timeout [] OTHER -> Err

\* waitForBuildComplete, spinwick.go:108-128
WaitForBuildComplete(w) ==
    LET r == wf[w]
        server == JenkinsServer(RepoName(r.pr))
    IN  /\ ~crashed
        /\ r.pc = "waitForBuildComplete"
        /\ IF server = "" \/ server \notin JenkinsCredentials
           THEN Set(w, Return([r EXCEPT !.log = @ \o <<Ev("commentFail", 0)>>],
                              "completed-failure"))
           ELSE Set(w, Enter(r, "waitForBuild"))
        /\ UNCHANGED <<store, remote, owner, nextId>>

\* a timeout branch that cleans up after itself
WaitForBuildTimeoutDeleting(r) ==
    Returned([r EXCEPT !.log = @ \o <<Ev("DeleteInstallation", r.inst)>>],
             "waitForBuild.ret", "timeout")

\* waitForBuild, builds.go:83-84: the deadline fired in the select
WaitForBuildTimeout(r) == Returned(r, "waitForBuild.ret", "timeout")

WaitForBuildDone(w) ==
    LET r == wf[w]
    IN  /\ ~crashed
        /\ r.pc = "waitForBuild"
        /\ "done" \in SelectOutcomes(r.t, BuildDeadline)
        /\ Set(w, WaitForBuildTimeout(r))
        /\ UNCHANGED <<store, remote, owner, nextId>>

\* waitForBuild, builds.go:85-159: the timer fired, one poll
WaitForBuildPoll(w) ==
    LET r == wf[w]
        repo == RepoName(r.pr)
    IN  /\ ~crashed
        /\ r.pc = "waitForBuild"
        /\ "timer" \in SelectOutcomes(r.t, BuildDeadline)
        /\ \/ \E fault \in {"nilpr", "err"} :
                \* builds.go:87-96: the store or GitHub answered with an error
                Set(w, Returned([r EXCEPT !.t = @ + 1,
                                          !.log = @ \o (IF fault = "nilpr"
                                                        THEN <<Ev("PullRequest.Get", Failed)>>
                                                        ELSE <<Ev("PullRequest.Get", Succeeded),
                                                               Ev("GetUpdateChecks", Failed)>>)],
                                "waitForBuild.ret", fault))
           \/ \E sc \in StatusAnswers(repo), link \in LinkAnswers(repo, StageLog(r)) :
              \E j \in JenkinsAnswers(repo, link) :
                LET r1 == [r EXCEPT !.t = @ + 1,
                                    !.log = @ \o <<Ev("PullRequest.Get", Succeeded)>>
                                              \o PollCalls(repo, sc[1], sc[2], link, j)]
                    \* pr as the deciding poll leaves it
                    r2 == [r1 EXCEPT !.BuildStatus = sc[1], !.BuildConclusion = sc[2],
                                     !.BuildLink = link]
                    d == WaitForBuildDecision(repo, sc[1], sc[2], link, j)
                IN  CASE d = "success" -> Set(w, Returned(r2, "waitForBuild.ret", "nil"))
                      [] d = "failed" -> Set(w, Returned(r2, "waitForBuild.ret", "err"))
                      [] d = "panic" -> Set(w, Panic(r1))
                      [] OTHER -> Set(w, r1)
        /\ UNCHANGED <<store, remote, owner, nextId>>

\* the pull request as the callers of waitForBuildComplete hold it: the fields
\* waitForBuild refreshed belong to the pr of waitForBuildComplete's own scope
CallerPR(r) == [r EXCEPT !.BuildStatus = "", !.BuildConclusion = "", !.BuildLink = ""]

\* waitForBuildComplete, spinwick.go:130-136, and what its callers do with
\* the result (spinwick.go:81-84 and 272-278)
WaitForBuildCompleteReturn(w) ==
    LET r == wf[w]
        c == [CallerPR(r) EXCEPT !.log = Compact(r.log, "waitForBuild", RetCode(r.ret))]
        failed == [c EXCEPT !.log = @ \o <<Ev("commentFail", 0)>>]
    IN  /\ ~crashed
        /\ r.pc = "waitForBuild.ret"
        /\ CASE r.ret = "nilpr" -> Set(w, Panic(c))
             [] r.ret = "timeout" -> Set(w, Return(failed, "timed-out"))
             [] r.ret = "err" -> Set(w, Return(failed, "completed-failure"))
             [] OTHER -> Set(w, [c EXCEPT !.pc = IF r.kind = "create"
                                                 THEN "Spinmint.Get" ELSE "upgrade"])
        /\ UNCHANGED <<store, remote, owner, nextId>>

(***************************** image wait **********************************)
\* what reg.ManifestDigest(image, tag) can answer: the digest, an error that
\* holds "status=404", another error
RegistryAnswers == {"digest", "status=404", "other"}

\* how a registry lookup ended, as the log keeps it (Succeeded, Failed, or)
NotFound == 2
Looked(a) ==
    CASE a = "digest" -> Succeeded
      [] a = "status=404" -> NotFound
      [] OTHER -> Failed

\* a lookup that takes every error for fatal
WaitForImageDecisionStrict(a) == IF a = "digest" THEN "success" ELSE "failed"

\* the decision of one poll of waitForImage, builds.go:64-72
WaitForImageDecision(a) ==
    IF a # "digest" /\ a # "status=404" THEN "failed"
    ELSE IF a = "digest" THEN "success"
    ELSE "continue"

\* the caller of waitForImage starts the wait for a pull request
StartWaitForImage(w) ==
    \E p \in PRs :
        /\ Free(w, p)
        /\ Set(w, Enter(Begin("image", p, "waitForImage"), "waitForImage"))
        /\ UNCHANGED <<store, remote, owner, nextId>>

\* pr.Sha as the store holds it when a poll reads the record: the head commit
\* of the pull request when the wait began and one pushed during the wait
\* (digits 0..9 stand for the hex digits)
Shas ==
    <<(<<1, 2, 3, 4, 5, 6, 7, 1>>), (<<7, 6, 5, 4, 3, 2, 1, 0>>)>>

\* a string of digits as the log keeps it: the number it spells
RECURSIVE Spelled(_)
Spelled(digits) ==
    IF digits = <<>> THEN 0
    ELSE 10 * Spelled(SubSeq(digits, 1, Len(digits) - 1)) + digits[Len(digits)]

\* the heads a poll of the wait can read: the one the poll before it read, or
\* one pushed since
HeadsSince(log) ==
    LET read == {i \in DOMAIN log : log[i].op = "pr.Sha"}
        seen == {k \in DOMAIN Shas : \E i \in read : log[i].arg = Spelled(Shas[k])}
    IN  {k \in DOMAIN Shas : \A j \in seen : j <= k}

\* a version that is the whole commit hash
GetInstallationVersionWhole(sha) == sha

\* getInstallationVersion, builds.go:27-29: pr.Sha[0:7]
GetInstallationVersion(sha) == SubSeq(sha, 1, 7)

\* waitForImage, builds.go:51-53: the deadline fired in the select
WaitForImageDone(w) ==
    LET r == wf[w]
    IN  /\ ~crashed
        /\ r.pc = "waitForImage"
        /\ "done" \in SelectOutcomes(r.t, ImageDeadline)
        /\ Set(w, Return([r EXCEPT !.ret = "timeout"], "timed-out"))
        /\ UNCHANGED <<store, remote, owner, nextId>>

\* waitForImage, builds.go:54-75: the timer fired, one poll
WaitForImagePoll(w) ==
    LET r == wf[w]
        r1 == [r EXCEPT !.t = @ + 1]
    IN  /\ ~crashed
        /\ r.pc = "waitForImage"
        /\ "timer" \in SelectOutcomes(r.t, ImageDeadline)
        /\ \/ Set(w, Return([r1 EXCEPT !.log = @ \o <<Ev("PullRequest.Get", Failed)>>,
                                        !.ret = "nilpr"],
                             "completed-failure"))
           \/ \E k \in HeadsSince(r.log), a \in RegistryAnswers :
                LET sha == Shas[k]
                    desiredTag == GetInstallationVersion(sha)
                    r2 == [r1 EXCEPT !.log = @ \o <<Ev("PullRequest.Get", Succeeded),
                                                    Ev("pr.Sha", Spelled(sha)),
                                                    Ev("desiredTag", Spelled(desiredTag)),
                                                    Ev("ManifestDigest", Looked(a))>>]
                    d == WaitForImageDecision(a)
                IN  CASE d = "success" ->
                           Set(w, Return([r2 EXCEPT !.ret = "nil"], "completed-success"))
                      [] d = "failed" ->
                           Set(w, Return([r2 EXCEPT !.ret = "err"], "completed-failure"))
                      [] OTHER -> Set(w, r2)
        /\ UNCHANGED <<store, remote, owner, nextId>>

(***************************** record store ********************************)
\* Spinmint().Get(pr.Number): the records of pull request p
Records(p) == {x \in store : x.Number = p}
\* what Spinmint().Get(pr.Number) can answer: an error, no record (nil), a record
SpinmintGetAnswers(p) ==
    {[err |-> TRUE, data |-> NoId]}
    \cup (IF Records(p) = {}
          THEN {[err |-> FALSE, data |-> NoId]}
          ELSE {[err |-> FALSE, data |-> x.InstanceId] : x \in Records(p)})

\* storeSpinmintInfo(spinmint): the record is inserted
StoreSpinmintInfo(st, p, id) == st \cup {[Number |-> p, InstanceId |-> id]}
\* removeSpinmintInfo(instanceClusterID): the records of that installation go
RemoveSpinmintInfo(st, id) == {x \in st : x.InstanceId # id}

(***************************** provisioning server *************************)
\* remote[id], the server's installation as far as the program tells its
\* states apart:
\* none yet, in progress (creation-requested, creation-no-compatible-clusters,
\* update-requested, ...), stable, creation-failed, deleted.

Live(rem, id) == id \in InstIds /\ rem[id] \notin {"none", "deleted"}

\* what the provisioning server may have made of an installation since the
\* last time it was looked at: it moves toward stable or creation-failed
Evolve(s) == IF s = "in-progress" THEN {"in-progress", "stable", "creation-failed"} ELSE {s}

\* the State field a GET shows for an installation in state s
Shown(s) ==
    IF s = "in-progress" THEN {"creation-requested", "creation-no-compatible-clusters"}
    ELSE {s}
StateOf(shown) ==
    IF shown \in {"creation-requested", "creation-no-compatible-clusters"}
    THEN "in-progress" ELSE shown

\* GET /api/installation/<id>: no response (transport), a body that does not
\* decode (garbage), an empty body (io.EOF, the struct keeps what it held), or
\* the installation
InstallationAnswers(rem, id) ==
    {[kind |-> k, State |-> ""] : k \in {"transport", "garbage", "empty"}}
    \cup (IF Live(rem, id)
          THEN {[kind |-> "ok", State |-> x] : x \in UNION {Shown(s) : s \in Evolve(rem[id])}}
          ELSE {})

Observe(rem, id, a) == IF a.kind = "ok" THEN [rem EXCEPT ![id] = StateOf(a.State)] ELSE rem

\* the State a GET put into the decoded struct, as the log keeps it: none
\* (no response: Failed), stable, creation-failed, anything else (the empty
\* State of a body that did not decode too)
StateStable == 3
StateCreationFailed == 4
StateOther == 5
StateSeen(a) ==
    CASE a.kind = "transport" -> Failed
      [] a.State = "stable" -> StateStable
      [] a.State = "creation-failed" -> StateCreationFailed
      [] OTHER -> StateOther

\* what a GET of the installation gave its caller: a body that does not decode
\* is an error there (spinwick.go:373-376), no State is looked at
InstallationSeen(a) == IF a.kind = "garbage" THEN Failed ELSE StateSeen(a)

\* json.NewDecoder(resp.Body).Decode: what the log keeps of a body that did
\* not decode (an empty body, io.EOF, is not taken for an error)
Undecoded(kind) == IF kind = "garbage" THEN <<Ev("json.Decode", Failed)>> ELSE <<>>

\* DELETE /api/installation/<id>: no response, a refusal (5xx), or the server
\* serves it: accepted when the installation exists, not found otherwise
DeleteInputs == {"transport", "refused", "served"}
DeleteAnswer(rem, id, del) ==
    IF del = "served" THEN (IF Live(rem, id) THEN "accepted" ELSE "notfound") ELSE del

\* the state of a goroutine's step: its record and the provisioning server
St(r, rem) == [r |-> r, remote |-> rem]
Log(s, evs) == [s EXCEPT !.r.log = @ \o evs]
Panicked(s) == s.r.pc = "panic"

\* the log's word for an answer to the DELETE
Answered(ans) == "answer:" \o ans

\* destroyMMInstallation, spinwick.go:317-324.  With no response resp is nil
\* and `defer resp.Body.Close()` dereferences it.
DestroyMMInstallation(s, id, del) ==
    LET ans == DeleteAnswer(s.remote, id, del)
        s1 == Log(s, <<Ev("DeleteInstallation", id), Ev(Answered(ans), id)>>)
    IN  CASE ans = "transport" -> [s1 EXCEPT !.r = Panic(@)]
          [] ans = "accepted" -> [s1 EXCEPT !.remote[id] = "deleted"]
          [] OTHER -> s1

(***************************** bootstrap ***********************************)
\* initializeMattermostTestServer, spinwick.go:459-584: its calls in order and
\* what a failed call leads to.  A failed CreateTeam or second CreateUser
\* returns a nil object whose Id the next statement reads.
\* a bootstrap that goes on when the ping never answered
BootstrapStagesPingOptional ==
    <<[call |-> "checkDNS", error |-> "err"],
      [call |-> "checkMMPing", error |-> "continue"],
      [call |-> "app.CreateUser", error |-> "err"],
      [call |-> "app.Login", error |-> "err"],
      [call |-> "app.CreateTeam", error |-> "panic"],
      [call |-> "app.AddTeamMember", error |-> "continue"],
      [call |-> "app.CreateTestUser", error |-> "panic"],
      [call |-> "app.AddTestTeamMember", error |-> "continue"],
      [call |-> "app.GetConfig", error |-> "err"],
      [call |-> "app.UpdateConfig", error |-> "err"]>>

BootstrapStages ==
    <<[call |-> "checkDNS", error |-> "err"],
      [call |-> "checkMMPing", error |-> "err"],
      [call |-> "app.CreateUser", error |-> "err"],
      [call |-> "app.Login", error |-> "err"],
      [call |-> "app.CreateTeam", error |-> "panic"],
      [call |-> "app.AddTeamMember", error |-> "continue"],
      [call |-> "app.CreateTestUser", error |-> "panic"],
      [call |-> "app.AddTestTeamMember", error |-> "continue"],
      [call |-> "app.GetConfig", error |-> "err"],
      [call |-> "app.UpdateConfig", error |-> "err"]>>

RECURSIVE BootstrapFrom(_)
BootstrapFrom(i) ==
    IF i > Len(BootstrapStages) THEN {[calls |-> <<>>, result |-> "nil"]}
    ELSE LET st == BootstrapStages[i]
             rest == BootstrapFrom(i + 1)
             after(code) == {[calls |-> <<Ev(st.call, code)>> \o x.calls,
                              result |-> x.result] : x \in rest}
         IN  after(Succeeded)
             \cup (IF st.error = "continue" THEN after(Failed)
                   ELSE {[calls |-> <<Ev(st.call, Failed)>>, result |-> st.error]})

BootstrapRuns == BootstrapFrom(1)

(***************************** installation wait ***************************)
\* One round of the loop of waitMattermostInstallation, spinwick.go:362-408:
\* the GET answered a, the select (if reached) chose sel, a DELETE (if sent)
\* is answered del, the bootstrap (if run) runs as boot.
\* an installation wait that sets up the server after an upgrade too
BootstrapsAlways(upgrade) == TRUE

\* waitMattermostInstallation, spinwick.go:379: `if !upgrade`
Bootstraps(upgrade) == ~upgrade

\* an installation wait that sleeps and looks again whatever State it read
WaitMattermostInstallationRoundLingering(s, upgrade, a, sel, del, boot) ==
    LET s1 == Log(St(s.r, Observe(s.remote, s.r.inst, a)),
                  <<Ev("GetInstallation", s.r.inst),
                    Ev("Installation.State", InstallationSeen(a))>> \o Undecoded(a.kind))
    IN  CASE a.kind \in {"transport", "garbage"} ->
                [s1 EXCEPT !.r = Returned(@, "waitMattermostInstallation.ret", "err")]
          [] sel = "done" /\ a.State \notin {"stable", "creation-failed"} ->
                [s1 EXCEPT !.r = Returned(@, "waitMattermostInstallation.ret", "timeout")]
          [] OTHER -> [s1 EXCEPT !.r.t = @ + 1]

WaitMattermostInstallationRound(s, upgrade, a, sel, del, boot) ==
    LET id == s.r.inst
        s1 == Log(St(s.r, Observe(s.remote, id, a)),
                  <<Ev("GetInstallation", id), Ev("Installation.State", InstallationSeen(a))>>
                  \o Undecoded(a.kind))
        \* installationRequest.ID: the zero value unless the body decoded
        rid == IF a.kind = "ok" THEN id ELSE NoId
        ret(x, v) == [x EXCEPT !.r = Returned([@ EXCEPT !.respId = rid],
                                              "waitMattermostInstallation.ret", v)]
        destroyThen(x, evs, v) ==
            LET d == DestroyMMInstallation(x, rid, del)
            IN  IF Panicked(d) THEN d ELSE ret(Log(d, evs), v)
        s2 == Log(s1, <<Ev("initializeMattermostTestServer", 0)>> \o boot.calls)
    IN  CASE a.kind \in {"transport", "garbage"} -> ret(s1, "err")
          [] a.State = "stable" /\ ~Bootstraps(upgrade) ->
                ret(Log(s1, <<Ev("commentOk", 0)>>), "nil")
          [] a.State = "stable" /\ boot.result = "panic" -> [s2 EXCEPT !.r = Panic(@)]
          [] a.State = "stable" /\ boot.result = "err" ->
                destroyThen(Log(s2, <<Ev("commentFail", 0)>>), <<>>, "nil")
          [] a.State = "stable" -> ret(Log(s2, <<Ev("commentOk", 0)>>), "nil")
          [] a.State = "creation-failed" ->
                destroyThen(Log(s1, <<Ev("commentFail", 0)>>), <<>>, "err")
          [] sel = "done" -> destroyThen(s1, <<Ev("commentFail", 0)>>, "timeout")
          [] OTHER -> [s1 EXCEPT !.r.t = @ + 1]

\* the inputs of one round: each answer of the GET with, where the round gets
\* that far, each run of the bootstrap, each choice of the select and each
\* answer to the DELETE
BootstrapOk == CHOOSE b \in BootstrapRuns : b.result = "nil" /\ \A c \in 1..Len(b.calls) : b.calls[c].arg = Succeeded
RoundInputs(rem, id, upgrade, t) ==
    LET in(a, sel, del, boot) == [a |-> a, sel |-> sel, del |-> del, boot |-> boot]
        A == InstallationAnswers(rem, id)
    IN  {in(a, "timer", "served", BootstrapOk) :
            a \in {x \in A : x.kind \in {"transport", "garbage"}
                              \/ (x.State = "stable" /\ upgrade)}}
        \cup {in(a, "timer", del, boot) :
                 a \in {x \in A : x.State = "stable" /\ ~upgrade},
                 del \in DeleteInputs,
                 boot \in {b \in BootstrapRuns : b.result = "err"}}
        \cup {in(a, "timer", "served", boot) :
                 a \in {x \in A : x.State = "stable" /\ ~upgrade},
                 boot \in {b \in BootstrapRuns : b.result # "err"}}
        \cup {in(a, "timer", del, BootstrapOk) :
                 a \in {x \in A : x.State = "creation-failed"}, del \in DeleteInputs}
        \cup {in(a, "timer", "served", BootstrapOk) :
                 a \in {x \in A : x.kind \in {"empty", "ok"}
                                   /\ x.State \notin {"stable", "creation-failed"}
                                   /\ "timer" \in SelectOutcomes(t, PollDeadline)}}
        \cup {in(a, "done", del, BootstrapOk) :
                 a \in {x \in A : x.kind \in {"empty", "ok"}
                                   /\ x.State \notin {"stable", "creation-failed"}
                                   /\ "done" \in SelectOutcomes(t, PollDeadline)},
                 del \in DeleteInputs}

WaitMattermostInstallationPoll(w) ==
    LET r == wf[w]
    IN  /\ ~crashed
        /\ r.pc = "waitMattermostInstallation"
        /\ \E x \in RoundInputs(remote, r.inst, r.kind = "update", r.t) :
             LET s == WaitMattermostInstallationRound(St(r, remote), r.kind = "update",
                                                      x.a, x.sel, x.del, x.boot)
             IN  Set(w, s.r) /\ remote' = s.remote
        /\ UNCHANGED <<store, owner, nextId>>

(***************************** create **************************************)
\* waitForBuildAndSetupSpinWick, spinwick.go:86-90: a SpinWick is created
\* when the lookup answered without error that there is no record
ShouldCreateUnchecked(a) == ~a.err

\* a caller that creates a SpinWick whatever the lookup answered
ShouldCreateAlways(a) == TRUE

ShouldCreate(a) == ~a.err /\ a.data = NoId

\* result.Err of a store answer, as the log keeps it
ErrOf(a) == IF a.err THEN Failed ELSE Succeeded

SpinmintGet(w) ==
    LET r == wf[w]
    IN  /\ ~crashed
        /\ r.pc = "Spinmint.Get"
        /\ \E a \in SpinmintGetAnswers(r.pr) :
             LET r1 == [r EXCEPT !.log = @ \o <<Ev("Spinmint.Get", a.data),
                                                Ev("result.Err", ErrOf(a))>>]
             IN  IF ShouldCreate(a) THEN Set(w, Enter(r1, "createSpinWick"))
                 ELSE IF a.err THEN Set(w, Return(r1, "completed-failure"))
                 ELSE Set(w, Return(r1, "skipped"))
        /\ UNCHANGED <<store, remote, owner, nextId>>

\* POST /api/installations: no response, a body that does not decode, an
\* empty body, or the new installation
CreateAnswers == {"transport", "garbage", "empty"} \cup (IF nextId \in InstIds THEN {"ok"} ELSE {})

\* createSpinWick, spinwick.go:139-172
CreateSpinWick(w) ==
    LET r == wf[w]
        r1 == [r EXCEPT !.log = @ \o <<Ev("CreateInstallation", 0)>>]
    IN  /\ ~crashed
        /\ r.pc = "createSpinWick"
        /\ \E a \in CreateAnswers :
             CASE a \in {"transport", "garbage"} ->
                    /\ Set(w, Returned([r1 EXCEPT !.log = @ \o Undecoded(a)],
                                       "createSpinWick.ret", "err"))
                    /\ UNCHANGED <<remote, owner, nextId>>
               [] a = "empty" ->
                    /\ Set(w, [r1 EXCEPT !.pc = "createSpinWick.get", !.inst = NoId])
                    /\ UNCHANGED <<remote, owner, nextId>>
               [] OTHER ->
                    /\ Set(w, [r1 EXCEPT !.pc = "createSpinWick.get", !.inst = nextId])
                    /\ remote' = [remote EXCEPT ![nextId] = "in-progress"]
                    /\ owner' = [owner EXCEPT ![nextId] = r.pr]
                    /\ nextId' = nextId + 1
        /\ UNCHANGED store

\* the State the re-fetch read, as the log keeps it
StateNoCluster == 6
RefetchSeen(a) ==
    IF a.kind # "transport" /\ a.State = "creation-no-compatible-clusters"
    THEN StateNoCluster
    ELSE InstallationSeen(a)

\* a cluster is asked for whenever the installation is not stable yet
NeedsClusterUnlessStable(state) == state # "stable"

\* createSpinWick, spinwick.go:194
NeedsCluster(state) == state = "creation-no-compatible-clusters"

\* createSpinWick, spinwick.go:174-199: the one re-fetch after the request
CreateSpinWickGet(w) ==
    LET r == wf[w]
    IN  /\ ~crashed
        /\ r.pc = "createSpinWick.get"
        /\ \E a \in InstallationAnswers(remote, r.inst) :
             LET r1 == [r EXCEPT !.log = @ \o <<Ev("GetInstallation", r.inst),
                                                Ev("Installation.State", RefetchSeen(a))>>
                                             \o Undecoded(a.kind)]
             IN  /\ remote' = Observe(remote, r.inst, a)
                 /\ CASE a.kind \in {"transport", "garbage"} ->
                           Set(w, Returned(r1, "createSpinWick.ret", "err"))
                      [] NeedsCluster(a.State) ->
                           Set(w, Enter(r1, "requestK8sClusterCreation"))
                      [] OTHER -> Set(w, Enter(r1, "waitMattermostInstallation"))
        /\ UNCHANGED <<store, owner, nextId>>

\* waitForBuildAndSetupSpinWick, spinwick.go:90-104, with the return of
\* createSpinWick (spinwick.go:205-210): a failure comment, or the record
\* a caller that saves what createSpinWick returned, whatever its error
SetupSpinWickRegardless(r, st) ==
    [r |-> Return([r EXCEPT !.log = Compact(r.log, "createSpinWick", RetCode(r.ret))
                                     \o <<Ev("Spinmint.Save", r.inst)>>],
                  "completed-success"),
     store |-> StoreSpinmintInfo(st, r.pr, r.inst)]

SetupSpinWick(r, st) ==
    LET c == [r EXCEPT !.log = Compact(r.log, "createSpinWick", RetCode(r.ret))]
    IN  IF r.ret = "nil"
        THEN [r |-> Return([c EXCEPT !.log = @ \o <<Ev("Spinmint.Save", r.inst)>>],
                           "completed-success"),
              store |-> StoreSpinmintInfo(st, r.pr, r.inst)]
        ELSE [r |-> Return([c EXCEPT !.log = @ \o <<Ev("commentFail", 0)>>],
                           IF r.ret = "timeout" THEN "timed-out" ELSE "completed-failure"),
              store |-> st]

CreateSpinWickReturn(w) ==
    LET r == wf[w]
    IN  /\ ~crashed
        /\ r.kind = "create"
        /\ r.pc \in {"createSpinWick.ret", "waitMattermostInstallation.ret", "waitK8sCluster.ret"}
        /\ r.pc = "waitK8sCluster.ret" => r.ret # "nil"
        /\ LET x == SetupSpinWick(r, store)
           IN  Set(w, x.r) /\ store' = x.store
        /\ UNCHANGED <<remote, owner, nextId>>

(***************************** cluster *************************************)
ClusterEvolve(s) ==
    IF s = "creation-requested" THEN {"creation-requested", "stable", "creation-failed"}
    ELSE {s}

\* GET /api/cluster/<id>
ClusterAnswers(c) ==
    {[kind |-> k, State |-> ""] : k \in {"transport", "garbage", "empty"}}
    \cup (IF c = "" THEN {} ELSE {[kind |-> "ok", State |-> s] : s \in ClusterEvolve(c)})

\* requestK8sClusterCreation, spinwick.go:586-619
RequestK8sClusterCreation(w) ==
    LET r == wf[w]
        r1 == [r EXCEPT !.log = @ \o <<Ev("commentInfo", 0), Ev("CreateCluster", 0)>>]
    IN  /\ ~crashed
        /\ r.pc = "requestK8sClusterCreation"
        /\ \E a \in {"transport", "garbage", "empty", "ok"} :
             CASE a \in {"transport", "garbage"} ->
                    Set(w, Returned(r1, "waitK8sCluster.ret", "err"))
               [] a = "empty" -> Set(w, [r1 EXCEPT !.pc = "waitK8sCluster", !.cluster = ""])
               [] OTHER ->
                    Set(w, [r1 EXCEPT !.pc = "waitK8sCluster",
                                      !.cluster = "creation-requested"])
        /\ UNCHANGED <<store, remote, owner, nextId>>

\* a cluster wait that gives up on the first state that is not stable
WaitK8sClusterRoundImpatient(r, a, sel) ==
    LET r1 == [r EXCEPT !.log = @ \o <<Ev("GetCluster", StateSeen(a))>> \o Undecoded(a.kind),
                        !.cluster = IF a.kind = "ok" THEN a.State ELSE @]
    IN  IF a.kind # "transport" /\ a.State = "stable"
        THEN Returned([r1 EXCEPT !.log = @ \o <<Ev("commentInfo", 0)>>],
                      "waitK8sCluster.ret", "nil")
        ELSE Returned([r1 EXCEPT !.log = @ \o <<Ev("commentFail", 0)>>],
                      "waitK8sCluster.ret", "err")

\* a cluster wait that asks for the cluster to be deleted when it gives up
WaitK8sClusterRoundDeleting(r, a, sel) ==
    LET r1 == [r EXCEPT !.log = @ \o <<Ev("GetCluster", StateSeen(a))>> \o Undecoded(a.kind),
                        !.cluster = IF a.kind = "ok" THEN a.State ELSE @]
        ret(x, evs, v) == Returned([x EXCEPT !.log = @ \o evs], "waitK8sCluster.ret", v)
    IN  CASE a.kind = "transport" -> ret(r1, <<>>, "err")
          [] a.State = "stable" -> ret(r1, <<Ev("commentInfo", 0)>>, "nil")
          [] a.State = "creation-failed" ->
                ret(r1, <<Ev("commentFail", 0), Ev("DeleteCluster", 0)>>, "err")
          [] sel = "done" -> ret(r1, <<Ev("DeleteCluster", 0), Ev("commentFail", 0)>>, "timeout")
          [] OTHER -> [r1 EXCEPT !.t = @ + 1]

\* one round of waitK8sCluster, spinwick.go:410-441; a body that does not
\* decode is logged and the round goes on with the zero Cluster
WaitK8sClusterRound(r, a, sel) ==
    LET r1 == [r EXCEPT !.log = @ \o <<Ev("GetCluster", StateSeen(a))>> \o Undecoded(a.kind),
                        !.cluster = IF a.kind = "ok" THEN a.State ELSE @]
        ret(x, evs, v) == Returned([x EXCEPT !.log = @ \o evs], "waitK8sCluster.ret", v)
    IN  CASE a.kind = "transport" -> ret(r1, <<>>, "err")
          [] a.State = "stable" -> ret(r1, <<Ev("commentInfo", 0)>>, "nil")
          [] a.State = "creation-failed" -> ret(r1, <<Ev("commentFail", 0)>>, "err")
          [] sel = "done" -> ret(r1, <<Ev("commentFail", 0)>>, "timeout")
          [] OTHER -> [r1 EXCEPT !.t = @ + 1]

WaitK8sClusterPoll(w) ==
    LET r == wf[w]
    IN  /\ ~crashed
        /\ r.pc = "waitK8sCluster"
        /\ \E a \in ClusterAnswers(r.cluster), sel \in SelectOutcomes(r.t, ClusterDeadline) :
             Set(w, WaitK8sClusterRound(r, a, sel))
        /\ UNCHANGED <<store, remote, owner, nextId>>

\* createSpinWick, spinwick.go:195-205: the cluster is there, the
\* installation is polled
CreateSpinWickAfterCluster(w) ==
    LET r == wf[w]
        c == [r EXCEPT !.log = Compact(r.log, "requestK8sClusterCreation", Nil),
                       !.cluster = ""]
    IN  /\ ~crashed
        /\ r.kind = "create"
        /\ r.pc = "waitK8sCluster.ret"
        /\ r.ret = "nil"
        /\ Set(w, Enter(c, "waitMattermostInstallation"))
        /\ UNCHANGED <<store, remote, owner, nextId>>

(***************************** destroy *************************************)
\* go destroySpinWick(pr, instanceClusterID), for an installation that was
\* created for the pull request
StartDestroy(w) ==
    \E p \in PRs, id \in InstIds :
        /\ Free(w, p)
        /\ owner[id] = p
        /\ Set(w, [Begin("destroy", p, "destroyMMInstallation") EXCEPT !.inst = id,
                                                                     !.round = 1])
        /\ UNCHANGED <<store, remote, owner, nextId>>

\* the destroy request comes a second time, for the same installation, as
\* soon as the first destroySpinWick returned; the log goes on
StartDestroyAgain(w) ==
    LET r == wf[w]
    IN  /\ ~crashed
        /\ r.kind = "destroy"
        /\ r.pc = "done"
        /\ r.round = 1
        /\ Set(w, [r EXCEPT !.pc = "destroyMMInstallation", !.round = 2, !.outcome = ""])
        /\ UNCHANGED <<store, remote, owner, nextId>>

\* destroySpinWick, spinwick.go:312
DestroySpinWick(w) ==
    LET r == wf[w]
    IN  /\ ~crashed
        /\ r.kind = "destroy"
        /\ r.pc = "destroyMMInstallation"
        /\ \E del \in DeleteInputs :
             LET s == DestroyMMInstallation(St(r, remote), r.inst, del)
             IN  /\ Set(w, IF Panicked(s) THEN s.r
                           ELSE [s.r EXCEPT !.pc = "removeSpinmintInfo"])
                 /\ remote' = s.remote
        /\ UNCHANGED <<store, owner, nextId>>

\* destroySpinWick, spinwick.go:314
DestroySpinWickRemove(w) ==
    LET r == wf[w]
    IN  /\ ~crashed
        /\ r.pc = "removeSpinmintInfo"
        /\ Set(w, Return([r EXCEPT !.log = @ \o <<Ev("Spinmint.Delete", r.inst)>>],
                         "completed-success"))
        /\ store' = RemoveSpinmintInfo(store, r.inst)
        /\ UNCHANGED <<remote, owner, nextId>>

(***************************** update **************************************)
\* Config.SetupSpinWick and Config.SetupSpinWickHA, and a label that is neither
SpinWickLabels == {"spinwick", "spinwick-ha"}
LabelSets == {{}, {"bug"}, {"spinwick"}, {"spinwick-ha", "bug"}}

\* a label check that any label satisfies
FoundLabelAny(labels) == labels # {}

\* updateSpinWick, spinwick.go:214-231
FoundLabel(labels) == labels \cap SpinWickLabels # {}

\* go updateSpinWick(pr): without a SpinWick label it returns at once,
\* otherwise it sleeps and asks for the build link (spinwick.go:213-245);
\* context is repo.BuildStatusContext as the process is configured
StartUpdate(w) ==
    \E p \in PRs, labels \in LabelSets :
        /\ Free(w, p)
        /\ IF FoundLabel(labels)
           THEN \E context \in Contexts :
                  Set(w, [Enter(Begin("update", p, "checkBuildLink"), "checkBuildLink")
                            EXCEPT !.context = context, !.labels = labels])
           ELSE Set(w, Return([Begin("update", p, "done") EXCEPT !.labels = labels],
                              "skipped"))
        /\ UNCHANGED <<store, remote, owner, nextId>>

StatusLink(context) == "status:" \o context
CheckLink(context) == "check:" \o context

\* a build link lookup that takes the first status it is given
CheckBuildLinkRoundFirst(context, statusErr, statuses, checksErr, checks, url) ==
    IF statusErr THEN [ret |-> "err", link |-> ""]
    ELSE IF statuses # {}
    THEN [ret |-> "nil", link |-> StatusLink(CHOOSE c \in statuses : TRUE)]
    ELSE IF checksErr THEN [ret |-> "err", link |-> ""]
    ELSE IF context \in checks
    THEN [ret |-> "nil", link |-> IF url THEN CheckLink(context) ELSE ""]
    ELSE [ret |-> "", link |-> ""]

\* one round of checkBuildLink up to its select, builds.go:167-188 (the same
\* as spinwick.go:330-351): statuses are the contexts of the combined status
\* that carry a target URL, checks the names of the check runs, url whether
\* the check run has an HTML URL
CheckBuildLinkRound(context, statusErr, statuses, checksErr, checks, url) ==
    IF statusErr THEN [ret |-> "err", link |-> ""]
    ELSE IF context \in statuses THEN [ret |-> "nil", link |-> StatusLink(context)]
    ELSE IF checksErr THEN [ret |-> "err", link |-> ""]
    ELSE IF context \in checks
    THEN [ret |-> "nil", link |-> IF url THEN CheckLink(context) ELSE ""]
    ELSE [ret |-> "", link |-> ""]

\* the calls of that round
CheckBuildLinkCalls(context, statusErr, statuses) ==
    <<Ev("GetCombinedStatus", 0)>>
    \o (IF statusErr \/ context \in statuses THEN <<>> ELSE <<Ev("ListCheckRunsForRef", 0)>>)

\* what GitHub can answer in one round
CheckBuildLinkInputs ==
    LET in(se, st, ce, ch, url) ==
            [statusErr |-> se, statuses |-> st, checksErr |-> ce, checks |-> ch, url |-> url]
    IN  {in(TRUE, {}, FALSE, {}, TRUE)}
        \cup {in(FALSE, st, TRUE, {}, TRUE) : st \in SUBSET Contexts}
        \cup {in(FALSE, st, FALSE, ch, url) :
                 st \in SUBSET Contexts, ch \in SUBSET Contexts, url \in BOOLEAN}

CheckBuildLinkPoll(w) ==
    LET r == wf[w]
    IN  /\ ~crashed
        /\ r.pc = "checkBuildLink"
        /\ \E i \in CheckBuildLinkInputs, sel \in SelectOutcomes(r.t, PollDeadline) :
             LET x == CheckBuildLinkRound(r.context, i.statusErr, i.statuses, i.checksErr,
                                          i.checks, i.url)
                 \* pr.Labels is not read past the label check
                 r1 == [r EXCEPT !.log = @ \o CheckBuildLinkCalls(r.context, i.statusErr,
                                                                  i.statuses),
                                 !.labels = {}]
             IN  CASE x.ret # "" ->
                        Set(w, Returned([r1 EXCEPT !.link = x.link],
                                        "checkBuildLink.ret", x.ret))
                   [] sel = "done" ->
                        Set(w, Returned([r1 EXCEPT !.log = @ \o <<Ev("commentFail", 0)>>],
                                        "checkBuildLink.ret", "timeout"))
                   [] OTHER -> Set(w, [r1 EXCEPT !.t = @ + 1])
        /\ UNCHANGED <<store, remote, owner, nextId>>

\* an update that goes on whenever the lookup gave no error
ShouldUpgradeUnchecked(a) == ~a.err

\* updateSpinWick, spinwick.go:259-269: the upgrade goes on when the lookup
\* answered a record without error
ShouldUpgrade(a) == ~a.err /\ a.data # NoId

\* updateSpinWick, spinwick.go:246-272: the link is saved with the pull
\* request, the record is looked up, the build wait starts
CheckBuildLinkReturn(w) ==
    LET r == wf[w]
        c == [r EXCEPT !.log = Compact(r.log, "checkBuildLink", RetCode(r.ret)),
                       !.link = "", !.context = ""]
    IN  /\ ~crashed
        /\ r.pc = "checkBuildLink.ret"
        /\ IF r.ret # "nil" \/ r.link = ""
           THEN Set(w, Return([c EXCEPT !.log = @ \o <<Ev("commentFail", 0)>>],
                              IF r.ret = "timeout" THEN "timed-out" ELSE "completed-failure"))
           ELSE \E a \in SpinmintGetAnswers(r.pr) :
                  LET c1 == [c EXCEPT !.log = @ \o <<Ev("PullRequest.Save", 0),
                                                     Ev("Spinmint.Get", a.data),
                                                     Ev("result.Err", ErrOf(a))>>]
                  IN  IF a.err THEN Set(w, Return(c1, "completed-failure"))
                      ELSE IF ~ShouldUpgrade(a) THEN Set(w, Return(c1, "skipped"))
                      ELSE Set(w, [c1 EXCEPT !.inst = a.data,
                                             !.log = @ \o <<Ev("commentInfo", 0)>>,
                                             !.pc = "waitForBuildComplete"])
        /\ UNCHANGED <<store, remote, owner, nextId>>

\* PUT /api/installation/<id>/mattermost: no response, a status other than
\* 202, or 202 Accepted
UpgradeAnswers(rem, id) ==
    {"transport", "refused"} \cup (IF Live(rem, id) THEN {"accepted"} ELSE {"notfound"})

\* resp.StatusCode of the answer to the PUT; NoResponse when there is none
NoResponse == 0
StatusAccepted == 202
StatusCode(a) ==
    CASE a = "transport" -> NoResponse
      [] a = "accepted" -> StatusAccepted
      [] a = "notfound" -> 404
      [] OTHER -> 500

\* an upgrade that goes on to poll on any response
PollsAfterAnyResponse(err, code) == ~err

\* updateSpinWick, spinwick.go:286-296: the wait is entered when the request
\* got a response and its status code is 202
PollsAfter(err, code) == ~err /\ code = StatusAccepted

\* updateSpinWick, spinwick.go:278-302
Upgrade(w) ==
    LET r == wf[w]
    IN  /\ ~crashed
        /\ r.pc = "upgrade"
        /\ \E a \in UpgradeAnswers(remote, r.inst) :
             LET r1 == [r EXCEPT !.log = @ \o <<Ev("UpgradeInstallation", r.inst),
                                                Ev("resp.StatusCode", StatusCode(a))>>]
             IN  /\ IF PollsAfter(a = "transport", StatusCode(a))
                    THEN Set(w, Enter(r1, "waitMattermostInstallation"))
                    ELSE Set(w, Return([r1 EXCEPT !.log = @ \o <<Ev("commentFail", 0)>>],
                                       "completed-failure"))
                 /\ remote' = IF a = "accepted"
                              THEN [remote EXCEPT ![r.inst] = "in-progress"]
                              ELSE remote
        /\ UNCHANGED <<store, owner, nextId>>

\* updateSpinWick, spinwick.go:302-307
UpdateSpinWickReturn(w) ==
    LET r == wf[w]
        c == [r EXCEPT !.log = Compact(r.log, "waitMattermostInstallation", RetCode(r.ret))]
    IN  /\ ~crashed
        /\ r.kind = "update"
        /\ r.pc = "waitMattermostInstallation.ret"
        /\ CASE r.ret = "nil" -> Set(w, Return(c, "completed-success"))
             [] r.ret = "timeout" ->
                  Set(w, Return([c EXCEPT !.log = @ \o <<Ev("commentFail", 0)>>], "timed-out"))
             [] OTHER ->
                  Set(w, Return([c EXCEPT !.log = @ \o <<Ev("commentFail", 0)>>],
                                "completed-failure"))
        /\ UNCHANGED <<store, remote, owner, nextId>>

(***************************** specification *******************************)
Step(w) ==
    \/ Exit(w)
    \/ StartCreate(w)
    \/ StartUpdate(w)
    \/ StartDestroy(w)
    \/ StartDestroyAgain(w)
    \/ WaitForBuildComplete(w)
    \/ WaitForBuildDone(w)
    \/ WaitForBuildPoll(w)
    \/ WaitForBuildCompleteReturn(w)
    \/ StartWaitForImage(w)
    \/ WaitForImageDone(w)
    \/ WaitForImagePoll(w)
    \/ SpinmintGet(w)
    \/ CreateSpinWick(w)
    \/ CreateSpinWickGet(w)
    \/ RequestK8sClusterCreation(w)
    \/ WaitK8sClusterPoll(w)
    \/ CreateSpinWickAfterCluster(w)
    \/ WaitMattermostInstallationPoll(w)
    \/ CreateSpinWickReturn(w)
    \/ CheckBuildLinkPoll(w)
    \/ CheckBuildLinkReturn(w)
    \/ Upgrade(w)
    \/ UpdateSpinWickReturn(w)
    \/ DestroySpinWick(w)
    \/ DestroySpinWickRemove(w)

\* one goroutine at a time
Next == Step(1)

Spec == Init /\ [][Next]_vars

\* Two goroutines at once.  The SpinWick of pull request 2 exists since an
\* earlier create (installation 1, its record stored); the create workflow of
\* pull request 1 is past its build wait; the destroy of pull request 2 can
\* come at any moment of it.
ConcInit ==
    /\ wf = [w \in Workers |->
               IF w = 1
               THEN [Begin("create", 1, "Spinmint.Get")
                       EXCEPT !.log = <<Ev("waitForBuild", Nil)>>]
               ELSE Idle]
    /\ store = {[Number |-> 2, InstanceId |-> 1]}
    /\ remote = [i \in InstIds |-> IF i = 1 THEN "stable" ELSE "none"]
    /\ owner = [i \in InstIds |-> IF i = 1 THEN 2 ELSE 0]
    /\ nextId = 2
    /\ crashed = FALSE

ConcNext ==
    \/ SpinmintGet(1)
    \/ CreateSpinWick(1)
    \/ CreateSpinWickGet(1)
    \/ RequestK8sClusterCreation(1)
    \/ WaitK8sClusterPoll(1)
    \/ CreateSpinWickAfterCluster(1)
    \/ WaitMattermostInstallationPoll(1)
    \/ CreateSpinWickReturn(1)
    \/ StartDestroy(2)
    \/ DestroySpinWick(2)
    \/ DestroySpinWickRemove(2)

ConcSpec == ConcInit /\ [][ConcNext]_vars

\* Two create workflows of one pull request at once: nothing in
\* waitForBuildAndSetupSpinWick keeps a second goroutine of the same pull
\* request from running.  Both are past their build wait, no SpinWick exists.
OverlapInit ==
    /\ wf = [w \in Workers |->
               [Begin("create", 1, "Spinmint.Get")
                  EXCEPT !.log = <<Ev("waitForBuild", Nil)>>]]
    /\ store = {}
    /\ remote = [i \in InstIds |-> "none"]
    /\ owner = [i \in InstIds |-> 0]
    /\ nextId = 1
    /\ crashed = FALSE

OverlapStep(w) ==
    \/ SpinmintGet(w)
    \/ CreateSpinWick(w)
    \/ CreateSpinWickGet(w)
    \/ RequestK8sClusterCreation(w)
    \/ WaitK8sClusterPoll(w)
    \/ CreateSpinWickAfterCluster(w)
    \/ WaitMattermostInstallationPoll(w)
    \/ CreateSpinWickReturn(w)

OverlapNext == OverlapStep(1) \/ OverlapStep(2)

OverlapSpec == OverlapInit /\ [][OverlapNext]_vars

\* every call returns and every timer fires: a goroutine that can take a step
\* takes one
FairSpec == Init /\ [][Next]_vars /\ WF_vars(Next)

(***************************** properties **********************************)
Decides(r) ==
    /\ r.pc = "waitForBuild.ret"
    /\ r.ret \in {"nil", "err"}
    /\ StageLog(r)[Len(StageLog(r))].op # "GetUpdateChecks"

IsStatusFetch(e) == e.op = "GetUpdateChecks.status"
StatusesSeen(r) == SelectSeq(StageLog(r), IsStatusFetch)

InWaitForBuild(r) == r.pc \in {"waitForBuild", "waitForBuild.ret"}

RecordsOf(id) == {x \in store : x.InstanceId = id}

\* C1: in the upgrade flow (updateSpinWick) no delete request for the remote
\* installation is ever issued, on any path.
C1_UpgradeNeverDeletes ==
    \A w \in Workers :
        wf[w].kind = "update" => ~Has(wf[w].log, "DeleteInstallation")

\* C2: in the create flow, once the create request returned an installation
\* id, every path on which createSpinWick returns a failure or a timeout has
\* issued a delete request for that installation before it returns.
C2_CreateFailureDeletes ==
    \A w \in Workers :
        LET r == wf[w]
        IN  (/\ r.kind = "create"
             /\ r.pc \in {"createSpinWick.ret", "waitK8sCluster.ret",
                          "waitMattermostInstallation.ret"}
             /\ r.ret # "nil"
             /\ r.inst # NoId)
            => HasEv(r.log, "DeleteInstallation", r.inst)

\* C3: the create workflow saves a record only when provisioning succeeded:
\* the installation was seen stable, its bootstrap ended without error (no
\* failure comment), and the workflow issued no delete request for it.
C3_RecordOnlyOnSuccess ==
    \A w \in Workers :
        LET r == wf[w]
        IN  (r.kind = "create" /\ HasEv(r.log, "Spinmint.Save", r.inst))
            => /\ ~HasEv(r.log, "DeleteInstallation", r.inst)
               /\ ~Has(r.log, "commentFail")
               /\ Has(r.log, "commentOk")

\* C4: in every reachable state the record store holds at most one record
\* for each pull-request number.
C4_OneRecordPerPullRequest ==
    \A p \in PRs : Cardinality(Records(p)) <= 1

\* a create workflow found the record of its pull request and left it alone,
\* although the provisioning server had an installation to give
C4_Witness ==
    \E w \in Workers :
        /\ wf[w].kind = "create"
        /\ wf[w].outcome = "skipped"
        /\ Cardinality(Records(wf[w].pr)) = 1
        /\ nextId \in InstIds

\* C5: destroy is idempotent: after one destroySpinWick and after a second
\* one right behind it for the same installation the record is absent, each
\* call has attempted the remote delete, the remote installation is gone
\* once the server served a delete, and the call ends normally.
C5_DestroyTwice ==
    \A w \in Workers :
        LET r == wf[w]
        IN  (r.kind = "destroy" /\ r.pc \in {"done", "panic"})
            => /\ r.pc = "done"
               /\ RecordsOf(r.inst) = {}
               /\ Cardinality(At(r.log, "DeleteInstallation")) = r.round
               /\ (Has(r.log, Answered("accepted")) \/ Has(r.log, Answered("notfound")))
                     => ~Live(remote, r.inst)

\* C6: whatever the remote delete request of destroySpinWick is answered
\* (accepted, not found, another non-2xx, no response at all), the workflow
\* goes on to delete the record, and the remote delete comes before it.
C6_DeleteThenRemoveRecord ==
    \A w \in Workers :
        LET r == wf[w]
        IN  r.kind = "destroy" =>
              /\ \A i \in At(r.log, "DeleteInstallation") :
                    \/ \E j \in At(r.log, "Spinmint.Delete") : j > i
                    \/ r.pc = "removeSpinmintInfo"
              /\ \A j \in At(r.log, "Spinmint.Delete") :
                    \E i \in At(r.log, "DeleteInstallation") : i < j

\* C7: for the repository whose build is read through status and conclusion,
\* a poll of waitForBuild returns success on completed/success, returns a
\* failure on completed with another conclusion and on every status that is
\* neither completed nor in_progress, and polls again on in_progress only.
C7_StatusDecisionTable ==
    \A w \in Workers :
        LET r == wf[w]
            seen == StatusesSeen(r)
        IN  (RepoName(r.pr) = "mattermost-webapp" /\ InWaitForBuild(r)) =>
              /\ Decides(r) =>
                   /\ r.BuildStatus # "in_progress"
                   /\ (r.ret = "nil") <=>
                        (r.BuildStatus = "completed" /\ r.BuildConclusion = "success")
                   /\ seen[Len(seen)].arg = Observed(r.BuildStatus, r.BuildConclusion)
              /\ \A i \in 1..Len(seen) :
                   (i < Len(seen) \/ ~Decides(r)) => seen[i].arg = InProgress

\* a second poll answered completed with a conclusion that is not success
C7_Witness ==
    \E w \in Workers :
        /\ RepoName(wf[w].pr) = "mattermost-webapp"
        /\ Decides(wf[w])
        /\ wf[w].BuildStatus = "completed"
        /\ wf[w].BuildConclusion = "failure"
        /\ wf[w].ret = "err"
        /\ Len(StatusesSeen(wf[w])) = 2

ScenarioA(r) ==
    LET seen == StatusesSeen(r)
    IN  /\ InWaitForBuild(r)
        /\ Len(seen) >= 3
        /\ seen[1].arg = InProgress
        /\ seen[2].arg = InProgress
        /\ seen[3].arg = CompletedSuccess

\* C9: when the status seen on successive polls is in_progress, in_progress,
\* completed/success, waitForBuild returns success on the third poll: three
\* status fetches, one per interval, none after the one that saw success.
C9_SuccessOnThirdPoll ==
    \A w \in Workers :
        LET r == wf[w]
        IN  ScenarioA(r) =>
              /\ r.pc = "waitForBuild.ret"
              /\ r.ret = "nil"
              /\ Len(StatusesSeen(r)) = 3
              /\ Cardinality(At(StageLog(r), "PullRequest.Get")) = 3
              /\ r.t = 3

C9_Witness == \E w \in Workers : ScenarioA(wf[w])

\* the requests that change the provisioning server or the record store
Changes ==
    {"CreateInstallation", "UpgradeInstallation", "DeleteInstallation",
     "CreateCluster", "Spinmint.Save", "Spinmint.Delete"}

\* C10: when its deadline expires waitForBuild returns a timeout error, and
\* over its whole run it has issued no create, upgrade or delete request and
\* no save or delete of a record; the server and the store are as they were.
C10_TimeoutChangesNothing ==
    /\ [](\A w \in Workers :
            InWaitForBuild(wf[w]) =>
                \A i \in 1..Len(StageLog(wf[w])) : StageLog(wf[w])[i].op \notin Changes)
    /\ [][\A w \in Workers :
            wf[w].pc = "waitForBuild" =>
              /\ store' = store /\ remote' = remote /\ owner' = owner /\ nextId' = nextId
              /\ (wf[w].t >= BuildDeadline /\ wf'[w] # wf[w]) =>
                    /\ wf'[w].pc = "waitForBuild.ret"
                    /\ wf'[w].ret = "timeout"
                    /\ wf'[w].log = wf[w].log]_vars

\* the wait of an update workflow ran into its deadline with a record and an
\* installation there to be changed
C10_Witness ==
    \E w \in Workers :
        /\ wf[w].pc = "waitForBuild.ret"
        /\ wf[w].ret = "timeout"
        /\ wf[w].t = BuildDeadline
        /\ wf[w].kind = "update"
        /\ Live(remote, wf[w].inst)
        /\ RecordsOf(wf[w].inst) # {}

(***************************** properties, continued ***********************)
IsLookup(e) == e.op = "ManifestDigest"
Lookups(r) == SelectSeq(r.log, IsLookup)
InWaitForImage(r) == r.kind = "image" /\ r.pc \in {"waitForImage", "done"}

\* C11: in waitForImage a lookup answered not-found (404) never ends the
\* wait, however many come in a row before the deadline: the next interval
\* looks up again; a lookup failing otherwise returns an error at once, and
\* the first lookup that succeeds returns success; no lookup follows either.
C11_NotFoundIsRetried ==
    \A w \in Workers :
        LET r == wf[w]
            seen == Lookups(r)
            n == Len(seen)
        IN  InWaitForImage(r) =>
              /\ \A i \in 1..(n - 1) : seen[i].arg = NotFound
              /\ (n > 0 /\ seen[n].arg = NotFound) =>
                    \/ r.pc = "waitForImage"
                    \/ r.ret = "timeout"
                    \* a later poll could not read the pull request
                    \/ (r.ret = "nilpr" /\ r.t = n + 1)
              /\ (n > 0 /\ seen[n].arg = Failed) => (r.pc = "done" /\ r.ret = "err")
              /\ (n > 0 /\ seen[n].arg = Succeeded) => (r.pc = "done" /\ r.ret = "nil")
              /\ r.pc = "waitForImage" => n = r.t

\* three lookups in a row answered not-found, the fourth found the image
C11_Witness ==
    \E w \in Workers :
        LET seen == Lookups(wf[w])
        IN  /\ InWaitForImage(wf[w])
            /\ Len(seen) = 4
            /\ \A i \in 1..3 : seen[i].arg = NotFound
            /\ seen[4].arg = Succeeded
            /\ wf[w].ret = "nil"

IsClusterPoll(e) == e.op = "GetCluster"
ClusterPolls(r) == SelectSeq(StageLog(r), IsClusterPoll)
InWaitK8sCluster(r) == r.pc \in {"waitK8sCluster", "waitK8sCluster.ret"}
\* the comments posted since the cluster was requested
ClusterComments(r) ==
    {i \in 1..Len(StageLog(r)) :
        /\ StageLog(r)[i].op \in {"commentInfo", "commentFail", "commentOk"}
        /\ \E j \in At(StageLog(r), "CreateCluster") : j < i}

\* C12: a poll of waitK8sCluster decides on the cluster state alone: stable
\* returns success after one notification comment, creation-failed returns
\* an error, every other state leads to the next poll and to no return as
\* long as the deadline has not expired.
C12_ClusterStateDecides ==
    \A w \in Workers :
        LET r == wf[w]
            seen == ClusterPolls(r)
            n == Len(seen)
        IN  (InWaitK8sCluster(r) /\ n > 0) =>
              /\ \A i \in 1..(n - 1) : seen[i].arg = StateOther
              /\ r.pc = "waitK8sCluster" => seen[n].arg = StateOther
              /\ (r.pc = "waitK8sCluster.ret" /\ seen[n].arg = StateStable) =>
                    /\ r.ret = "nil"
                    /\ Cardinality(ClusterComments(r)) = 1
                    /\ StageLog(r)[Len(StageLog(r))].op = "commentInfo"
              /\ (r.pc = "waitK8sCluster.ret" /\ seen[n].arg = StateCreationFailed) =>
                    r.ret = "err"
              /\ (r.pc = "waitK8sCluster.ret" /\ seen[n].arg = StateOther) =>
                    (r.ret = "timeout" /\ r.t + 1 >= ClusterDeadline)

\* the cluster was seen in another state, then stable
C12_Witness ==
    \E w \in Workers :
        LET seen == ClusterPolls(wf[w])
        IN  /\ wf[w].pc = "waitK8sCluster.ret"
            /\ Len(seen) = 2
            /\ seen[1].arg = StateOther
            /\ seen[2].arg = StateStable
            /\ wf[w].ret = "nil"

InClusterStage(r) ==
    r.pc \in {"requestK8sClusterCreation", "waitK8sCluster", "waitK8sCluster.ret"}

\* C13: cluster provisioning never deletes a cluster: on every path of
\* requestK8sClusterCreation and waitK8sCluster, creation-failed and the
\* deadline (which returns a timeout error) included, the requests made are
\* the cluster creation, the cluster polls and comments, and no delete.
C13_ClusterNeverDeleted ==
    \A w \in Workers :
        LET r == wf[w]
        IN  InClusterStage(r) =>
              /\ \A i \in 1..Len(StageLog(r)) :
                    StageLog(r)[i].op \in {"commentInfo", "commentFail", "CreateCluster",
                                           "GetCluster", "json.Decode"}
              /\ r.ret = "timeout" =>
                    StageLog(r)[Len(StageLog(r))] = Ev("commentFail", 0)

\* the cluster wait ran into its deadline
C13_Witness ==
    \E w \in Workers :
        /\ wf[w].pc = "waitK8sCluster.ret"
        /\ wf[w].ret = "timeout"
        /\ Has(StageLog(wf[w]), "CreateCluster")
        /\ Len(ClusterPolls(wf[w])) = ClusterDeadline

InInstallationWait(r) ==
    r.pc \in {"waitMattermostInstallation", "waitMattermostInstallation.ret"}
ClusterRequests(r) == Cardinality(At(r.log, "CreateCluster"))

\* C14: a create workflow asks for a cluster only if the one re-fetch after
\* the create request read creation-no-compatible-clusters; the request and
\* the whole cluster wait are over before the first installation poll, and
\* the installation is polled only if the cluster was seen stable.
C14_ClusterBeforePolling ==
    /\ [](\A w \in Workers :
            LET r == wf[w]
            IN  /\ InClusterStage(r) =>
                     /\ r.log[r.mark] = Ev("Installation.State", StateNoCluster)
                     /\ Cardinality(At(r.log, "GetInstallation")) = 1
                /\ (r.kind = "create" /\ InInstallationWait(r)
                       /\ Has(r.log, "CreateCluster")) =>
                     /\ r.log[r.mark] = Ev("requestK8sClusterCreation", Nil)
                     /\ \A i \in At(r.log, "CreateCluster") : i < r.mark
                     /\ \A i \in At(r.log, "GetInstallation") : i > r.mark)
    /\ [][\A w \in Workers :
            /\ ClusterRequests(wf'[w]) > ClusterRequests(wf[w]) =>
                  wf[w].pc = "requestK8sClusterCreation"
            /\ (wf[w].pc = "waitK8sCluster.ret"
                   /\ wf'[w].pc = "waitMattermostInstallation") =>
                  LET seen == ClusterPolls(wf[w])
                  IN  Len(seen) > 0 /\ seen[Len(seen)].arg = StateStable]_vars

\* the installation is polled after a cluster was asked for and came up
C14_Witness ==
    \E w \in Workers :
        /\ wf[w].kind = "create"
        /\ wf[w].pc = "waitMattermostInstallation"
        /\ Has(wf[w].log, "CreateCluster")
        /\ Has(StageLog(wf[w]), "GetInstallation")

BootstrapCalls(log) == Cardinality(At(log, "initializeMattermostTestServer"))
SawStable(r) == HasEv(StageLog(r), "Installation.State", StateStable)

\* C15: initializeMattermostTestServer is called exactly once in a create
\* workflow whose installation wait read the state stable, not at all in a
\* create workflow that ended in creation-failed or in the timeout, and not
\* at all in an update workflow.
C15_BootstrapOncePerStableCreate ==
    \A w \in Workers :
        LET r == wf[w]
            n == BootstrapCalls(r.log)
        IN  /\ r.kind # "create" => n = 0
            /\ (r.kind = "create" /\ r.pc \notin {"done", "idle"}) =>
                  n = (IF InInstallationWait(r) \/ r.pc = "panic"
                       THEN (IF SawStable(r) THEN 1 ELSE 0)
                       ELSE 0)
            /\ (r.kind = "create" /\ r.pc = "waitMattermostInstallation.ret"
                   /\ r.ret = "nil") => SawStable(r)
            /\ (r.kind = "create" /\ r.pc = "done") =>
                  n = (IF HasEv(r.log, "createSpinWick", Nil) THEN 1 ELSE 0)

\* a create workflow finished after one run of the bootstrap
C15_Witness ==
    \E w \in Workers :
        /\ wf[w].kind = "create"
        /\ wf[w].outcome = "completed-success"
        /\ BootstrapCalls(wf[w].log) = 1

IsInstallationState(e) == e.op = "Installation.State"
\* the States the polls of the installation wait read, in order
StatesPolled(r) == SelectSeq(StageLog(r), IsInstallationState)
OnlyOtherStates(r) ==
    /\ Len(StatesPolled(r)) > 0
    /\ \A i \in 1..Len(StatesPolled(r)) : StatesPolled(r)[i].arg = StateOther

\* C16: when every poll of a fresh create reads a state other than stable
\* and creation-failed until the deadline expires, the wait returns the
\* timeout error after a delete request for the installation id it was
\* polling, createSpinWick returns that error and no record is saved.
C16_TimeoutDeletesPolledInstallation ==
    \A w \in Workers :
        LET r == wf[w]
        IN  /\ (/\ r.kind = "create"
                /\ r.pc \in {"waitMattermostInstallation.ret", "panic"}
                /\ OnlyOtherStates(r))
               => /\ r.pc = "waitMattermostInstallation.ret"
                  /\ r.ret = "timeout"
                  /\ HasEv(StageLog(r), "DeleteInstallation", r.inst)
            /\ (r.kind = "create" /\ HasEv(r.log, "createSpinWick", Timeout))
               => /\ r.outcome = "timed-out"
                  /\ ~Has(r.log, "Spinmint.Save")
                  /\ Records(r.pr) = {}

TerminalStates == {StateStable, StateCreationFailed}

\* C17: in the installation wait of a create and of an update, the poll that
\* reads stable or creation-failed is the last one: no GET follows it and no
\* further interval is waited; every poll before it waited one interval.
C17_TerminalStateEndsPolling ==
    \A w \in Workers :
        LET r == wf[w]
            P == StatesPolled(r)
        IN  (r.kind \in {"create", "update"} /\ (InInstallationWait(r) \/ r.pc = "panic"))
            => /\ \A i \in 1..Len(P) :
                    P[i].arg \in TerminalStates
                    => /\ i = Len(P)
                       /\ r.pc # "waitMattermostInstallation"
                       /\ r.t = Len(P) - 1
                       /\ Cardinality(At(StageLog(r), "GetInstallation")) = Len(P)
               /\ r.pc = "waitMattermostInstallation" => r.t = Len(P)

\* a wait read a terminal state after a poll that read another one
C17_Witness ==
    \E w \in Workers :
        /\ wf[w].kind \in {"create", "update"}
        /\ wf[w].pc = "waitMattermostInstallation.ret"
        /\ Len(StatesPolled(wf[w])) > 1
        /\ StatesPolled(wf[w])[Len(StatesPolled(wf[w]))].arg \in TerminalStates

\* C18: in updateSpinWick the installation is polled if and only if the
\* upgrade request was answered with status 202; after any other status or
\* no response the workflow posts a failure comment and ends without a poll.
C18_PollingIffAccepted ==
    \A w \in Workers :
        LET r == wf[w]
            n == Len(r.log)
        IN  r.kind = "update" =>
              /\ (InInstallationWait(r) \/ Has(r.log, "GetInstallation"))
                 => /\ r.mark > 0
                    /\ r.log[r.mark] = Ev("resp.StatusCode", StatusAccepted)
                    /\ \A i \in At(r.log, "GetInstallation") : i > r.mark
              /\ \A i \in At(r.log, "resp.StatusCode") :
                    IF r.log[i].arg = StatusAccepted
                    THEN InInstallationWait(r) \/ r.pc = "panic"
                    ELSE /\ r.pc = "done"
                         /\ i = n - 1
                         /\ r.log[n] = Ev("commentFail", 0)
                         /\ ~Has(r.log, "GetInstallation")

\* an upgrade was answered with another status and the workflow ended
C18_Witness ==
    \E w \in Workers :
        /\ wf[w].kind = "update"
        /\ wf[w].pc = "done"
        /\ \E i \in At(wf[w].log, "resp.StatusCode") :
              wf[w].log[i].arg \notin {StatusAccepted, NoResponse}

ProvisioningCalls ==
    {"CreateInstallation", "GetInstallation", "DeleteInstallation",
     "UpgradeInstallation", "CreateCluster", "GetCluster"}
Provisioned(log) == \E i \in 1..Len(log) : log[i].op \in ProvisioningCalls
\* the position of the one event e in a log, 0 when it is not there
Position(log, e) ==
    IF \E i \in 1..Len(log) : log[i] = e
    THEN CHOOSE i \in 1..Len(log) : log[i] = e
    ELSE 0

\* C19: the create workflow sends the create request only after the build
\* wait returned success and then the record lookup answered no record and
\* no error; otherwise it sends no provisioning request and writes no
\* record.  A record is saved only after createSpinWick returned no error.
C19_CreateOnlyAfterBuildAndLookup ==
    /\ [](\A w \in Workers :
            LET r == wf[w]
                n == Len(r.log)
                built == Position(r.log, Ev("waitForBuild", Nil))
                made == Position(r.log, Ev("createSpinWick", Nil))
            IN  r.kind = "create" =>
                  /\ r.pc = "createSpinWick"
                     => /\ 0 < built /\ built < n - 1
                        /\ r.log[n - 1] = Ev("Spinmint.Get", NoId)
                        /\ r.log[n] = Ev("result.Err", Succeeded)
                  /\ r.pc \in {"waitForBuildComplete", "waitForBuild", "waitForBuild.ret",
                               "Spinmint.Get", "createSpinWick"}
                     => ~Provisioned(r.log) /\ ~Has(r.log, "Spinmint.Save")
                  /\ (r.pc = "done" /\ ~Has(r.log, "CreateInstallation"))
                     => ~Provisioned(r.log) /\ ~Has(r.log, "Spinmint.Save")
                  /\ \A i \in At(r.log, "Spinmint.Save") :
                        /\ r.pc = "done"
                        /\ made > 0 /\ i = made + 1
                        /\ \E j \in At(r.log, "CreateInstallation") : j < made)
    /\ [][\A w \in Workers :
            /\ (wf'[w].kind = "create"
                   /\ Has(wf'[w].log, "CreateInstallation")
                   /\ ~Has(wf[w].log, "CreateInstallation"))
               => wf[w].kind = "create" /\ wf[w].pc = "createSpinWick"
            /\ (wf[w].kind = "create" /\ wf[w].pc \in {"waitForBuild.ret", "Spinmint.Get"}
                   /\ wf'[w].pc = "done")
               => store' = store /\ remote' = remote]_vars
    /\ [][store' # store =>
            \E w \in Workers :
                \/ wf[w].kind = "destroy"
                \/ /\ wf[w].kind = "create"
                   /\ wf[w].pc = "waitMattermostInstallation.ret"
                   /\ wf[w].ret = "nil"
                   /\ store' = StoreSpinmintInfo(store, wf[w].pr, wf[w].inst)]_vars

\* a create workflow went through the build wait, the lookup and
\* createSpinWick and saved its record
C19_Witness ==
    \E w \in Workers :
        /\ wf[w].kind = "create"
        /\ wf[w].outcome = "completed-success"
        /\ Has(wf[w].log, "Spinmint.Save")
        /\ Records(wf[w].pr) # {}

\* C20: updateSpinWick for a pull request that carries neither SpinWick label
\* does nothing: it ends at once having made no call to the CI source, the
\* provisioning server or the store and no comment, with the pull request,
\* the records and the installations as they were; with one of the labels
\* it goes on to the build link.
C20_UpdateWithoutLabelIsNoOp ==
    [][\A w \in Workers :
          (wf[w].pc = "idle" /\ wf'[w].kind = "update")
          => IF wf'[w].labels \cap {"spinwick", "spinwick-ha"} = {}
             THEN /\ wf'[w].pc = "done"
                  /\ wf'[w].log = <<>>
                  /\ wf'[w].inst = NoId
                  /\ <<store, remote, owner, nextId, crashed>>'
                       = <<store, remote, owner, nextId, crashed>>
             ELSE /\ wf'[w].pc = "checkBuildLink"
                  /\ wf'[w].log = <<>>]_vars

\* an update for a pull request labelled only "bug" ended with nothing done
\* while a record and an installation existed
C20_Witness ==
    \E w \in Workers :
        /\ wf[w].kind = "update"
        /\ wf[w].pc = "done"
        /\ wf[w].labels = {"bug"}
        /\ wf[w].log = <<>>
        /\ Records(wf[w].pr) # {}

(***************************** properties, third part **********************)
RecordOf(p, id) == [Number |-> p, InstanceId |-> id]

\* C21: updateSpinWick sends the upgrade request only when the lookup gave
\* the record of the pull request and the build wait then returned success,
\* and sends it for the installation id of that record; when there is no
\* record or the lookup fails it sends no upgrade request and polls nothing.
C21_UpgradeOnlyForRecordedInstallation ==
    \A w \in Workers :
        LET r == wf[w]
            n == Len(r.log)
        IN  r.kind = "update" =>
              /\ r.pc = "upgrade"
                 => /\ r.log[n] = Ev("waitForBuild", Nil)
                    /\ r.inst # NoId
                    /\ RecordOf(r.pr, r.inst) \in store
              /\ \A i \in At(r.log, "UpgradeInstallation") :
                    /\ r.log[i].arg = r.inst
                    /\ r.inst # NoId
                    /\ RecordOf(r.pr, r.inst) \in store
                    /\ Has(r.log, "waitMattermostInstallation")
                          \/ (i > 1 /\ r.log[i - 1] = Ev("waitForBuild", Nil))
              /\ \A i \in At(r.log, "Spinmint.Get") :
                    (r.log[i].arg = NoId \/ r.log[i + 1] = Ev("result.Err", Failed))
                    => /\ r.pc = "done"
                       /\ i = n - 1
                       /\ ~Has(r.log, "UpgradeInstallation")
                       /\ ~Has(r.log, "GetInstallation")
              /\ (Has(r.log, "GetInstallation") \/ InInstallationWait(r))
                    => Has(r.log, "UpgradeInstallation")

\* an upgrade request went out for the installation of the record
C21_Witness ==
    \E w \in Workers :
        /\ wf[w].kind = "update"
        /\ HasEv(wf[w].log, "UpgradeInstallation", wf[w].inst)
        /\ RecordOf(wf[w].pr, wf[w].inst) \in store

\* the workflows that took the step
Acting == {w \in Workers : wf'[w] # wf[w]}

\* C22: the installation id of a stored record never changes: a record stays
\* as it is until a destroy removes it, only a create workflow adds one, and
\* an update workflow neither saves nor deletes a record on any path.
C22_RecordIdNeverChanges ==
    /\ [][/\ \A p \in PRs : \A x \in Records(p) : Records(p)' \subseteq {x}
          /\ store' # store =>
               /\ \A w \in Acting : wf[w].kind # "update"
               /\ store' \ store # {} => \E w \in Acting : wf[w].kind = "create"
               /\ store \ store' # {} => \E w \in Acting : wf[w].kind = "destroy"]_vars
    /\ [](\A w \in Workers :
            wf[w].kind = "update" =>
                /\ ~Has(wf[w].log, "Spinmint.Save")
                /\ ~Has(wf[w].log, "Spinmint.Delete"))

\* an update went through its upgrade and its wait and the record it read
\* is still the one in the store
C22_Witness ==
    \E w \in Workers :
        /\ wf[w].kind = "update"
        /\ wf[w].pc = "done"
        /\ Has(wf[w].log, "waitMattermostInstallation")
        /\ Records(wf[w].pr) = {RecordOf(wf[w].pr, wf[w].inst)}

FailureComments(r) == Cardinality(At(r.log, "commentFail"))

\* C23: a create or update workflow that ended in a failure the user is told
\* of has posted exactly one failure comment, counted over all its stages.
C23_OneFailureComment ==
    \A w \in Workers :
        LET r == wf[w]
        IN  (r.kind \in {"create", "update"} /\ r.pc = "done")
            => /\ FailureComments(r) <= 1
               /\ r.outcome = "timed-out" => FailureComments(r) = 1

LastOf(log) == log[Len(log)]
\* the last call of the stage was a request that got no response
Unanswered(r, e) == StageLog(r) # <<>> /\ LastOf(StageLog(r)) = e

\* C24: one failed request does not end the loop it was made in: after a GET
\* of the installation or of the cluster that got no response, and after a
\* failed status or check-run fetch, the loop is still polling and the error
\* has not been returned.
C24_TransientErrorIsRetried ==
    \A w \in Workers :
        LET r == wf[w]
        IN  /\ (InInstallationWait(r) /\ Unanswered(r, Ev("Installation.State", Failed)))
               => r.pc = "waitMattermostInstallation"
            /\ (InWaitK8sCluster(r) /\ Unanswered(r, Ev("GetCluster", Failed)))
               => r.pc = "waitK8sCluster"
            /\ r.pc = "checkBuildLink.ret" => r.ret # "err"

\* C25: a response that does not decode is fatal where it was received: the
\* create-installation response, the first re-fetch, an installation poll
\* and a cluster poll each return an error at once, nothing is asked after.
C25_UndecodableIsFatal ==
    \A w \in Workers :
        LET r == wf[w]
        IN  \A i \in At(r.log, "json.Decode") :
                /\ i = Len(r.log)
                /\ r.pc \in {"createSpinWick.ret", "waitMattermostInstallation.ret",
                             "waitK8sCluster.ret"}
                /\ r.ret = "err"

\* the requests the bootstrap sends to the application, in the order of the code
ApplicationCalls ==
    <<"app.CreateUser", "app.Login", "app.CreateTeam", "app.AddTeamMember",
      "app.CreateTestUser", "app.AddTestTeamMember", "app.GetConfig", "app.UpdateConfig">>
BootstrapOrder == <<"checkDNS", "checkMMPing">> \o ApplicationCalls
OrderOf(op) == CHOOSE i \in 1..Len(BootstrapOrder) : BootstrapOrder[i] = op
IsBootstrapCall(e) == \E i \in 1..Len(BootstrapOrder) : BootstrapOrder[i] = e.op
BootstrapCallsOf(r) == SelectSeq(r.log, IsBootstrapCall)
Unreachable(r) == HasEv(r.log, "checkDNS", Failed) \/ HasEv(r.log, "checkMMPing", Failed)

\* C26: the bootstrap runs the reachability check, then the ping, then the
\* account and team setup, then the configuration push; when the
\* reachability check or the ping fails it returns an error (the wait
\* comments and deletes) and no request was sent to the application.
C26_BootstrapOrder ==
    \A w \in Workers :
        LET r == wf[w]
            calls == BootstrapCallsOf(r)
        IN  /\ \A i \in 1..Len(calls) : OrderOf(calls[i].op) = i
            /\ calls # <<>> =>
                  /\ r.kind = "create"
                  /\ r.pc \in {"waitMattermostInstallation.ret", "panic"}
                  /\ r.log[Position(r.log, calls[1]) - 1] = Ev("initializeMattermostTestServer", 0)
            /\ Unreachable(r) =>
                  /\ Len(calls) <= 2
                  /\ LastOf(calls).arg = Failed
                  /\ \A i \in 1..Len(ApplicationCalls) : ~Has(r.log, ApplicationCalls[i])
                  /\ Has(StageLog(r), "commentFail")
                  /\ ~Has(StageLog(r), "commentOk")

\* the host was reachable and the ping never answered
C26_Witness ==
    \E w \in Workers :
        /\ wf[w].pc = "waitMattermostInstallation.ret"
        /\ HasEv(wf[w].log, "checkDNS", Succeeded)
        /\ HasEv(wf[w].log, "checkMMPing", Failed)

Requests(r) == {i \in 1..Len(r.log) : r.log[i].op \in ProvisioningCalls}

\* C27: with every call returning and every deadline expiring, a create or
\* update workflow eventually ends (completed-success, completed-failure,
\* timed-out, or the silent return of a workflow that had nothing to do), and
\* once it has ended it sends no further request.
C27_EveryWorkflowEnds ==
    /\ \A w \in Workers :
          (wf[w].kind \in {"create", "update"} /\ Running(w)) ~> (wf[w].pc = "done")
    /\ [][\A w \in Workers :
            (wf[w].kind \in {"create", "update"} /\ wf[w].pc = "done")
            => \/ wf'[w] = wf[w]
               \/ wf'[w] = Idle]_vars

\* what the workflow in slot w works on: its locals, the records of its pull
\* request, the installations made for it, and the process it runs in
Untouched(w) ==
    /\ wf'[w] = wf[w]
    /\ Records(wf[w].pr)' = Records(wf[w].pr)
    /\ \A id \in InstIds :
          owner[id] = wf[w].pr => (remote'[id] = remote[id] /\ owner'[id] = owner[id])
    /\ Running(w) => crashed' = crashed

\* C28: workflows of different pull requests do not interfere: a step of the
\* workflow of one pull request leaves the workflow of another pull request,
\* its records and its installations as they are, and leaves it running.
C28_NoInterference ==
    [][\A v, w \in Workers :
          (/\ v # w
           /\ wf'[v] # wf[v]
           /\ wf[w].pr # 0
           /\ wf'[v].pr # wf[w].pr)
          => Untouched(w)]_vars

\* how many times the stage the goroutine is in has called op
Polled(r, op) == Cardinality(At(StageLog(r), op))

\* C29: once the deadline of a polling stage has expired the stage polls no
\* more, also when the deadline and the poll interval end at the same
\* instant (the waits that sleep first poll at the instants 1 .. deadline-1,
\* the waits that poll first at 0 .. deadline-1), and a stage that returns
\* by its deadline has taken its compensating action: the create's
\* installation wait has asked for the installation it polled to be deleted,
\* the build-link and cluster waits have commented.
C29_NoPollAfterDeadline ==
    \A w \in Workers :
        LET r == wf[w]
        IN  /\ InWaitForBuild(r) => Polled(r, "PullRequest.Get") < BuildDeadline
            /\ InWaitForImage(r) => Polled(r, "PullRequest.Get") < ImageDeadline
            /\ r.pc \in {"checkBuildLink", "checkBuildLink.ret"}
                  => Polled(r, "GetCombinedStatus") <= PollDeadline
            /\ InInstallationWait(r) => Polled(r, "GetInstallation") <= PollDeadline
            /\ InWaitK8sCluster(r) => Polled(r, "GetCluster") <= ClusterDeadline
            /\ (r.kind = "create" /\ r.pc = "waitMattermostInstallation.ret"
                   /\ r.ret = "timeout")
                  => HasEv(StageLog(r), "DeleteInstallation", r.inst)
            /\ (r.pc \in {"checkBuildLink.ret", "waitK8sCluster.ret"} /\ r.ret = "timeout")
                  => LastOf(r.log) = Ev("commentFail", 0)

\* the first seven of the eight digits of a commit, on the numbers they spell
FirstSeven(commit) == commit \div 10

\* C30: every poll of waitForImage re-reads the pull request from the store
\* and asks the registry for the tag made of the first seven digits of the
\* commit read in that same poll, so a commit stored during the wait is the
\* one later polls and the success are about; a poll that cannot read the
\* store ends the wait with an error and asks the registry nothing.
C30_TagOfCommitReadInSamePoll ==
    \A w \in Workers :
        LET r == wf[w]
            n == Len(r.log)
        IN  InWaitForImage(r) =>
              /\ \A i \in At(r.log, "PullRequest.Get") :
                    IF r.log[i].arg = Succeeded
                    THEN /\ i + 3 <= n
                         /\ r.log[i + 1].op = "pr.Sha"
                         /\ r.log[i + 2] = Ev("desiredTag", FirstSeven(r.log[i + 1].arg))
                         /\ r.log[i + 3].op = "ManifestDigest"
                    ELSE /\ i = n
                         /\ r.pc = "done"
                         /\ r.ret = "nilpr"
              /\ \A j \in At(r.log, "ManifestDigest") :
                    j > 3 /\ r.log[j - 3] = Ev("PullRequest.Get", Succeeded)
              /\ Cardinality(At(r.log, "PullRequest.Get")) = r.t
              /\ r.ret = "nil" => r.log[n] = Ev("ManifestDigest", Succeeded)

\* a commit was pushed during the wait: the first poll asked for the tag of
\* the old one, the second found the tag of the new one
C30_Witness ==
    \E w \in Workers :
        LET r == wf[w]
        IN  /\ InWaitForImage(r)
            /\ r.ret = "nil"
            /\ Len(r.log) = 8
            /\ r.log[2] = Ev("pr.Sha", 12345671)
            /\ r.log[3] = Ev("desiredTag", 1234567)
            /\ r.log[6] = Ev("pr.Sha", 76543210)
            /\ r.log[7] = Ev("desiredTag", 7654321)

\* the remote installations created for pull request p and not deleted
Remaining(p) == {i \in InstIds : owner[i] = p /\ Live(remote, i)}
\* both create workflows of pull request p have returned
BothFinished(p) ==
    \A w \in Workers : wf[w].kind = "create" /\ wf[w].pr = p /\ wf[w].pc = "done"
\* neither of them met a failure on its way: none commented one, none asked
\* for its installation to be deleted
BothSucceeded ==
    \A w \in Workers :
        /\ wf[w].outcome = "completed-success"
        /\ ~Has(wf[w].log, "commentFail")
        /\ ~Has(wf[w].log, "DeleteInstallation")

\* C31: when two create workflows of the same pull request overlap, then
\* after both have finished every remote installation created for the pull
\* request and not deleted is the one its persisted record names: none is
\* left without the record leading to it.  Stated for the overlaps in which
\* neither workflow failed, so that nothing but the overlap is involved.
C31_NoOrphanAfterOverlap ==
    \A p \in PRs :
        (BothFinished(p) /\ BothSucceeded) =>
            \A i \in Remaining(p) : Records(p) = {[Number |-> p, InstanceId |-> i]}

====
